---- MODULE Spec2Model ----
(***************************************************************************)
(* Selection-and-orchestration engine of the tensor comparative dashboard: *)
(* the zustand store (dashboardStore), the brush handler of the scatter    *)
(* plot, the manual and automatic analysis pipelines of App.tsx and the    *)
(* history / comparison store.                                             *)
(*                                                                         *)
(* A nullable field of the store is an option: Null (<<>>) or Some(v)      *)
(* (<<v>>). An array is a sequence; point indices are 0-based as in the    *)
(* source. Remote responses carry the id of the invocation that asked for  *)
(* them (src), which stands for the identity of the response object.       *)
(***************************************************************************)
EXTENDS Integers, Sequences, FiniteSets, TLC

VARIABLES
    configPc,            \* loadConfig: "pending", "loaded" or "failed"
    classWeights,        \* classWeights.length
    embeddingData,       \* sequence of EmbeddingPoint
    scaledData, Ms, Mv,  \* retained stage-1 output, options
    clusters,            \* [cluster1, cluster2], options of index sequences
    topFeatures,         \* option
    contributionMatrix,  \* option
    interpretation,      \* option
    analysisHistory,     \* sequence of SavedAnalysis, head = most recent
    selectedHistoryIds,  \* sequence of ids
    isLoading,
    inv,                 \* the invocations started so far (manual and automatic);
                         \* seq numbers an invocation's analyzeClusters request
    nAnalyze,            \* number of analyzeClusters requests issued so far
    clock,               \* number of ids generated so far (Date.now / Math.random)
    isComparing,         \* CompareTab: a compareAnalyses call is awaited
    compareCall,         \* CompareTab: the awaited compareAnalyses request, option
    comparisonResult     \* CompareTab: option

vars == <<configPc, classWeights, embeddingData, scaledData, Ms, Mv, clusters,
          topFeatures, contributionMatrix, interpretation, analysisHistory,
          selectedHistoryIds, isLoading, inv, nAnalyze, clock,
          isComparing, compareCall, comparisonResult>>

(* the local state of CompareTab *)
compareVars == <<isComparing, compareCall, comparisonResult>>

storeVars == <<embeddingData, scaledData, Ms, Mv, clusters, topFeatures,
               contributionMatrix, interpretation, analysisHistory,
               selectedHistoryIds>>

-----------------------------------------------------------------------------
(* Bounds of the model *)

MaxInvocations == 3
MaxSaves == 12
MaxSessionSaves == 2
MaxFeatures == 5

(* Program constants *)

MAX_HISTORY_SIZE == 10
MaxSelection == 2
TopVariablesKept == 3
TopRacksKept == 5
TopFeaturesSent == 10
NClasses == 3
innerWidth == 340
innerHeight == 240
PadPercent == 15

-----------------------------------------------------------------------------
(* Options *)

Null == <<>>
Some(v) == <<v>>
IsSet(o) == o # Null
Val(o) == o[1]

Range(s) == {s[k] : k \in 1..Len(s)}

RECURSIVE FilterFrom(_, _, _)
(* Array.prototype.filter from position k on: the elements whose position  *)
(* is in kept, in iteration order                                          *)
FilterFrom(s, kept, k) ==
    IF k > Len(s) THEN <<>>
    ELSE IF k \in kept THEN <<s[k]>> \o FilterFrom(s, kept, k + 1)
         ELSE FilterFrom(s, kept, k + 1)

(* Array.prototype.filter, the callback given as the positions it accepts *)
Filter(s, kept) == FilterFrom(s, kept, 1)

Slice(s, a, b) == SubSeq(s, a + 1, IF b < Len(s) THEN b ELSE Len(s))

SliceLast(s, n) == IF Len(s) <= n THEN s ELSE SubSeq(s, Len(s) - n + 1, Len(s))

-----------------------------------------------------------------------------
(* Inputs: what the remote services may answer and what the user may draw *)

(* a screen coordinate is a rational num/den with den > 0 *)
Q(n) == [num |-> n, den |-> 1]

(* a brush rectangle with whole pixel corners *)
Rect(x0, y0, x1, y1) ==
    [x0 |-> Q(x0), y0 |-> Q(y0), x1 |-> Q(x1), y1 |-> Q(y1)]

(* computeEmbedding answers: the embedding ([[x, y]]) and the labels *)
EmbeddingResponses ==
    { [embedding |-> << <<0, 0>>, <<2, 4>>, <<8, 6>>, <<10, 10>> >>,
       labels |-> <<0, 1, 2, 0>>],
      [embedding |-> << <<0, 5>>, <<10, 5>>, <<5, 5>> >>,
       labels |-> <<1, 1, 0>>] }

(* analyzeClusters answers: top_features (rack, variable, p < 0.05 or not) *)
FeatureLists ==
    { << [rack |-> "r1", variable |-> "temp", significant |-> TRUE],
         [rack |-> "r2", variable |-> "power", significant |-> FALSE],
         [rack |-> "r3", variable |-> "power", significant |-> TRUE] >> }

(* completed brush gestures: [[x0, y0], [x1, y1]] in screen space *)
Rects ==
    { Rect(0,   0, 170, 240),
      Rect(170, 0, 340, 240),
      Rect(0,   0, 60,  240),
      Rect(0,   0, 30,  20) }

(* event.selection: null for a click without a drag *)
BrushSelections == {Null} \cup {Some(r) : r \in Rects}

-----------------------------------------------------------------------------
(* Geometry: the padded linear scales of handleBrushEnd.                   *)
(* A screen position is a rational num/den with den > 0; comparisons are   *)
(* cross-multiplied so that the arithmetic is exact.                       *)

SetMin(S) == CHOOSE m \in S : \A n \in S : m <= n
SetMax(S) == CHOOSE m \in S : \A n \in S : m >= n

(* d3.extent *)
Extent(V) == <<SetMin(V), SetMax(V)>>

(* mutant: the extent used as the domain, without padding *)
PaddedDomainNoPadding(ext) ==
    <<[num |-> 100 * ext[1], den |-> 100], [num |-> 100 * ext[2], den |-> 100]>>

(* [extent[0] - padding, extent[1] + padding] with padding = range * 0.15, *)
(* in hundredths                                                           *)
PaddedDomain(ext) ==
    LET range == ext[2] - ext[1]
    IN <<[num |-> 100 * ext[1] - PadPercent * range, den |-> 100],
         [num |-> 100 * ext[2] + PadPercent * range, den |-> 100]>>

(* d3.scaleLinear().domain(PaddedDomain(ext)).range([r0, r1]) at v:        *)
(* r0 + (r1 - r0) * (v - d0) / (d1 - d0); a domain of width 0 maps to the  *)
(* middle of the range.                                                    *)
ScaleLinear(ext, r0, r1, v) ==
    LET d0 == PaddedDomain(ext)[1].num
        d1 == PaddedDomain(ext)[2].num
    IN IF d1 = d0
       THEN [num |-> r0 + r1, den |-> 2]
       ELSE [num |-> r0 * (d1 - d0) + (r1 - r0) * (100 * v - d0),
             den |-> d1 - d0]

Geq(q, b) == q.num * b.den >= b.num * q.den
Leq(q, b) == q.num * b.den <= b.num * q.den

xScale(points, v) ==
    ScaleLinear(Extent({points[k].x : k \in 1..Len(points)}), 0, innerWidth, v)
yScale(points, v) ==
    ScaleLinear(Extent({points[k].y : k \in 1..Len(points)}), innerHeight, 0, v)

(* mutant: the rectangle test with strict comparisons *)
InRectStrict(points, d, r) ==
    LET px == xScale(points, d.x)
        py == yScale(points, d.y)
    IN ~Leq(px, r.x0) /\ ~Geq(px, r.x1) /\ ~Leq(py, r.y0) /\ ~Geq(py, r.y1)

InRect(points, d, r) ==
    LET px == xScale(points, d.x)
        py == yScale(points, d.y)
    IN Geq(px, r.x0) /\ Leq(px, r.x1) /\ Geq(py, r.y0) /\ Leq(py, r.y1)

OrEmpty(o) == IF IsSet(o) THEN Val(o) ELSE <<>>

(* mutant: the rectangle test without the exclusion of assigned points *)
SelectedIndicesNoExclusion(points, cl, r) ==
    LET kept == Filter(points,
                       {k \in 1..Len(points) : InRect(points, points[k], r)})
    IN [k \in 1..Len(kept) |-> kept[k].index]

(* selectedIndices of handleBrushEnd *)
SelectedIndices(points, cl, r) ==
    LET cluster1Set == Range(OrEmpty(cl.cluster1))
        cluster2Set == Range(OrEmpty(cl.cluster2))
        Keep(d) == IF d.index \in cluster1Set \/ d.index \in cluster2Set
                   THEN FALSE
                   ELSE InRect(points, d, r)
        kept == Filter(points, {k \in 1..Len(points) : Keep(points[k])})
    IN [k \in 1..Len(kept) |-> kept[k].index]

-----------------------------------------------------------------------------
(* The store (dashboardStore): each operation returns the fields it sets *)

(* embedding.map((point, index) => ({x, y, index, label: labels[index]})) *)
EmbeddingPoints(embedding, labels) ==
    [k \in 1..Len(embedding) |->
        [x |-> embedding[k][1], y |-> embedding[k][2],
         index |-> k - 1, label |-> labels[k]]]

selectCluster1(cl, indices) == [cluster1 |-> Some(indices), cluster2 |-> Null]

selectCluster2(cl, indices) == [cl EXCEPT !.cluster2 = Some(indices)]

(* mutant: deselecting an id empties the whole selection *)
toggleDeselectClears(sel, id) ==
    IF id \in Range(sel)
    THEN <<>>
    ELSE SliceLast(Append(sel, id), MaxSelection)

(* mutant: a full selection evicts the newest id, not the oldest *)
toggleEvictNewest(sel, id) ==
    IF id \in Range(sel)
    THEN Filter(sel, {k \in 1..Len(sel) : sel[k] # id})
    ELSE IF Len(sel) < MaxSelection THEN Append(sel, id)
         ELSE Append(SubSeq(sel, 1, MaxSelection - 1), id)

(* [...selectedHistoryIds, id].slice(-2), or the filter when id is selected *)
toggleHistorySelection(sel, id) ==
    IF id \in Range(sel)
    THEN Filter(sel, {k \in 1..Len(sel) : sel[k] # id})
    ELSE SliceLast(Append(sel, id), MaxSelection)

(* mutant: a save rewrites the interpretation of the entries already saved *)
PrependRefreshing(hist, newAnalysis) ==
    Slice(<<newAnalysis>> \o
            [k \in 1..Len(hist) |->
                [hist[k] EXCEPT !.interpretation = newAnalysis.interpretation]],
          0, MAX_HISTORY_SIZE)

(* mutant: slice(-MAX_HISTORY_SIZE), which drops the head of a full list *)
PrependKeepLast(hist, newAnalysis) ==
    SliceLast(<<newAnalysis>> \o hist, MAX_HISTORY_SIZE)

(* [newAnalysis, ...analysisHistory].slice(0, MAX_HISTORY_SIZE) *)
PrependBounded(hist, newAnalysis) ==
    Slice(<<newAnalysis>> \o hist, 0, MAX_HISTORY_SIZE)

(* Summary statistics of saveCurrentAnalysis *)

RECURSIVE FirstSeen(_, _)
(* the keys of variableCounts in insertion order (names that are not array *)
(* indices, which a JavaScript object would list first)                    *)
FirstSeen(items, seen) ==
    IF items = <<>> THEN <<>>
    ELSE IF Head(items).variable \in seen
         THEN FirstSeen(Tail(items), seen)
         ELSE <<Head(items).variable>>
              \o FirstSeen(Tail(items), seen \cup {Head(items).variable})

CountOf(items, v) == Cardinality({k \in 1..Len(items) : items[k].variable = v})

RECURSIVE InsertDesc(_, _, _)
(* insert e in a sequence sorted by descending count, after its equals *)
InsertDesc(sorted, e, items) ==
    IF sorted = <<>> THEN <<e>>
    ELSE IF CountOf(items, Head(sorted)) >= CountOf(items, e)
         THEN <<Head(sorted)>> \o InsertDesc(Tail(sorted), e, items)
         ELSE <<e>> \o sorted

RECURSIVE StableSortDesc(_, _)
(* Array.prototype.sort((a, b) => b[1] - a[1]), which is stable *)
StableSortDesc(s, items) ==
    IF s = <<>> THEN <<>>
    ELSE InsertDesc(StableSortDesc(SubSeq(s, 1, Len(s) - 1), items),
                    s[Len(s)], items)

(* mutant: the keys of variableCounts, never sorted by count *)
sortedVarsUnsorted(items) == FirstSeen(items, {})

sortedVars(items) == StableSortDesc(FirstSeen(items, {}), items)

Summary(items) ==
    [significant_count |->
        Cardinality({k \in 1..Len(items) : items[k].significant}),
     top_variables |-> Slice(sortedVars(items), 0, TopVariablesKept),
     top_racks |-> LET first == Slice(items, 0, TopRacksKept)
                   IN [k \in 1..Len(first) |-> first[k].rack]]

NewAnalysis(id, cl, features, interp) ==
    [id |-> id,
     timestamp |-> id,
     cluster1_indices |-> Val(cl.cluster1),
     cluster2_indices |-> Val(cl.cluster2),
     cluster1_size |-> Len(Val(cl.cluster1)),
     cluster2_size |-> Len(Val(cl.cluster2)),
     top_features |-> Val(features),
     interpretation |-> Val(interp),
     summary |-> Summary(Val(features).items)]

HistoryIds(hist) == [k \in 1..Len(hist) |-> hist[k].id]

-----------------------------------------------------------------------------
(* Invocations of the analysis pipeline *)

InFlightPcs == {"computeEmbedding", "analyzeClusters", "interpretClusters"}

InFlight(i) == i \in 1..Len(inv) /\ inv[i].pc \in InFlightPcs

AnalyzeRequest(n, c1, c2, sd, ms, mv) ==
    [stage |-> "analyzeClusters", seq |-> n,
     cluster1_indices |-> c1, cluster2_indices |-> c2,
     scaled_data |-> sd, Ms |-> ms, Mv |-> mv]

InterpretRequest(features, size1, size2) ==
    [stage |-> "interpretClusters", top_features |-> features,
     cluster1_size |-> size1, cluster2_size |-> size2]

(* mutant: the effect re-runs stage 1 before the analysis *)
analyzeIfReadyFromStage1(st, cl, sd, ms, mv) ==
    IF IsSet(cl.cluster1) /\ IsSet(cl.cluster2) /\ IsSet(sd) /\ IsSet(ms) /\ IsSet(mv)
    THEN [inv |-> Append(st.inv,
                    [kind |-> "auto", pc |-> "computeEmbedding",
                     cluster1 |-> cl.cluster1, cluster2 |-> cl.cluster2,
                     scaledData |-> Null, Ms |-> Null, Mv |-> Null,
                     analysisResult |-> Null,
                     seq |-> 0,
                     stages |-> <<"computeEmbedding">>,
                     request |-> Some([stage |-> "computeEmbedding",
                                       class_weights |-> 0])]),
          isLoading |-> TRUE,
          nAnalyze |-> st.nAnalyze]
    ELSE st

(* The auto-analyze effect of Dashboard, run after a render in which       *)
(* clusters.cluster1, clusters.cluster2, scaledData, Ms or Mv changed:     *)
(* analyzeIfReady up to its first await. st = [inv, isLoading, nAnalyze].  *)
analyzeIfReady(st, cl, sd, ms, mv) ==
    IF IsSet(cl.cluster1) /\ IsSet(cl.cluster2) /\ IsSet(sd) /\ IsSet(ms) /\ IsSet(mv)
    THEN [inv |-> Append(st.inv,
                    [kind |-> "auto", pc |-> "analyzeClusters",
                     cluster1 |-> cl.cluster1, cluster2 |-> cl.cluster2,
                     scaledData |-> sd, Ms |-> ms, Mv |-> mv,
                     analysisResult |-> Null,
                     seq |-> st.nAnalyze + 1,
                     stages |-> <<"analyzeClusters">>,
                     request |-> Some(AnalyzeRequest(st.nAnalyze + 1,
                                       Val(cl.cluster1), Val(cl.cluster2),
                                       Val(sd), Val(ms), Val(mv)))]),
          isLoading |-> TRUE,
          nAnalyze |-> st.nAnalyze + 1]
    ELSE st

(* finally { setIsLoading(false) } *)
Finally(loading) == FALSE

(* Invocation me after its last statement: its closure is dead, only its   *)
(* kind and its outcome ("done" or "failed") are remembered.               *)
Finished(me, outcome) ==
    [kind |-> me.kind, pc |-> outcome,
     cluster1 |-> Null, cluster2 |-> Null,
     scaledData |-> Null, Ms |-> Null, Mv |-> Null,
     analysisResult |-> Null,
     seq |-> 0,
     stages |-> <<>>,
     request |-> Null]

Orchestration == [inv |-> inv, isLoading |-> isLoading, nAnalyze |-> nAnalyze]

(* the orchestration state after a response was handled *)
StoreOrchestration(st) ==
    /\ inv' = st.inv
    /\ isLoading' = st.isLoading
    /\ nAnalyze' = st.nAnalyze

(* the orchestration state after a user command, which starts an           *)
(* invocation only while fewer than MaxInvocations have been started       *)
SetOrchestration(st) ==
    /\ Len(st.inv) > Len(inv) => Len(st.inv) <= MaxInvocations
    /\ StoreOrchestration(st)

(* The invocations of a behaviour: those the user starts and the automatic *)
(* one that the embedding of the last manual one may start.                *)
Invocations == 1..(MaxInvocations + 1)

(* mutant: a new embedding stores the scaled data without Ms and Mv *)
setEmbeddingDataNoMatrices(embedding, labels, sd, ms, mv) ==
    [embeddingData |-> EmbeddingPoints(embedding, labels),
     scaledData |-> Some(sd), Ms |-> Null, Mv |-> Null,
     analysisHistory |-> <<>>, selectedHistoryIds |-> <<>>]

(* mutant: a new embedding keeps History and the comparison selection *)
setEmbeddingDataKeepsHistory(embedding, labels, sd, ms, mv) ==
    [embeddingData |-> EmbeddingPoints(embedding, labels),
     scaledData |-> Some(sd), Ms |-> Some(ms), Mv |-> Some(mv),
     analysisHistory |-> analysisHistory,
     selectedHistoryIds |-> selectedHistoryIds]

setEmbeddingData(embedding, labels, sd, ms, mv) ==
    [embeddingData |-> EmbeddingPoints(embedding, labels),
     scaledData |-> Some(sd), Ms |-> Some(ms), Mv |-> Some(mv),
     analysisHistory |-> <<>>, selectedHistoryIds |-> <<>>]

(* mutant: the reset forgets the interpretation *)
resetKeepsInterpretation ==
    [clusters |-> [cluster1 |-> Null, cluster2 |-> Null],
     topFeatures |-> Null, contributionMatrix |-> Null,
     interpretation |-> interpretation]

resetClusters ==
    [clusters |-> [cluster1 |-> Null, cluster2 |-> Null],
     topFeatures |-> Null, contributionMatrix |-> Null, interpretation |-> Null]

clearHistory == [analysisHistory |-> <<>>, selectedHistoryIds |-> <<>>]

(* mutant: a third selection replaces cluster2 and keeps cluster1 *)
AssignSelectionKeepFirst(cl, selectedIndices) ==
    IF ~IsSet(cl.cluster1) THEN selectCluster1(cl, selectedIndices)
    ELSE selectCluster2(cl, selectedIndices)

(* the assignment policy at the end of handleBrushEnd *)
AssignSelection(cl, selectedIndices) ==
    IF ~IsSet(cl.cluster1) THEN selectCluster1(cl, selectedIndices)
    ELSE IF ~IsSet(cl.cluster2) THEN selectCluster2(cl, selectedIndices)
    ELSE selectCluster1(cl, selectedIndices)

(* what the remote services answer to invocation i *)
EmbeddingResult(i, resp) ==
    [embedding |-> resp.embedding, labels |-> resp.labels,
     scaled_data |-> [src |-> i, part |-> "scaled_data"],
     Ms |-> [src |-> i, part |-> "Ms"],
     Mv |-> [src |-> i, part |-> "Mv"]]

(* about: the two index sets of the request that is answered *)
AnalysisResult(i, request, items) ==
    [top_features |-> [src |-> i,
                       about |-> [cluster1_indices |-> request.cluster1_indices,
                                  cluster2_indices |-> request.cluster2_indices],
                       items |-> items],
     contribution_matrix |-> [src |-> i]]

InterpretationResult(i, request) ==
    [sections |-> [src |-> i, about |-> request.top_features.src,
                   texts |-> <<"summary", "detail">>]]

-----------------------------------------------------------------------------
(* Initial state: the store as created, the config request in flight *)

Init ==
    /\ configPc = "pending"
    /\ classWeights = 0
    /\ embeddingData = <<>>
    /\ scaledData = Null
    /\ Ms = Null
    /\ Mv = Null
    /\ clusters = [cluster1 |-> Null, cluster2 |-> Null]
    /\ topFeatures = Null
    /\ contributionMatrix = Null
    /\ interpretation = Null
    /\ analysisHistory = <<>>
    /\ selectedHistoryIds = <<>>
    /\ isLoading = FALSE
    /\ inv = <<>>
    /\ nAnalyze = 0
    /\ clock = 0
    /\ isComparing = FALSE
    /\ compareCall = Null
    /\ comparisonResult = Null

-----------------------------------------------------------------------------
(* Actions *)

(* loadConfig resolved: setConfig, initializeWeights(cfg.n_classes) *)
LoadConfigOk ==
    /\ configPc = "pending"
    /\ configPc' = "loaded"
    /\ classWeights' = NClasses
    /\ UNCHANGED <<storeVars, isLoading, inv, nAnalyze, clock>>
    /\ UNCHANGED compareVars

(* getConfig rejected: a toast, no state change *)
LoadConfigFailed ==
    /\ configPc = "pending"
    /\ configPc' = "failed"
    /\ UNCHANGED <<classWeights, storeVars, isLoading, inv, nAnalyze, clock>>
    /\ UNCHANGED compareVars

(* mutant: handleExecute memoised without clusters among its dependencies *)
(* keeps the clusters of the first render                                  *)
ManualInvocationStale(cl, weights) ==
    [kind |-> "manual", pc |-> "computeEmbedding",
     cluster1 |-> Null, cluster2 |-> Null,
     scaledData |-> Null, Ms |-> Null, Mv |-> Null,
     analysisResult |-> Null,
     seq |-> 0,
     stages |-> <<"computeEmbedding">>,
     request |-> Some([stage |-> "computeEmbedding", class_weights |-> weights])]

(* a run of handleExecute at its first await: the clusters and the class   *)
(* weights of the render that created the callback, the request in flight  *)
ManualInvocation(cl, weights) ==
    [kind |-> "manual", pc |-> "computeEmbedding",
     cluster1 |-> cl.cluster1, cluster2 |-> cl.cluster2,
     scaledData |-> Null, Ms |-> Null, Mv |-> Null,
     analysisResult |-> Null,
     seq |-> 0,
     stages |-> <<"computeEmbedding">>,
     request |-> Some([stage |-> "computeEmbedding", class_weights |-> weights])]

(* handleExecute up to its first await. The Execute button is a Chakra     *)
(* Button with isLoading={isLoading}, which is disabled while loading.     *)
ExecuteClick ==
    /\ ~isLoading
    /\ IF classWeights = 0
       THEN UNCHANGED <<isLoading, inv, nAnalyze>>
       ELSE SetOrchestration(
              [inv |-> Append(inv, ManualInvocation(clusters, classWeights)),
               isLoading |-> TRUE,
               nAnalyze |-> nAnalyze])
    /\ UNCHANGED <<configPc, classWeights, storeVars, clock>>
    /\ UNCHANGED compareVars

(* mutant: analyzeClusters requested before the embedding is stored *)
EmbeddingResolvedNotStored(i, resp) ==
    /\ i \in 1..Len(inv)
    /\ inv[i].pc = "computeEmbedding"
    /\ LET embeddingResult == EmbeddingResult(i, resp)
           set == setEmbeddingData(embeddingResult.embedding, embeddingResult.labels,
                                   embeddingResult.scaled_data,
                                   embeddingResult.Ms, embeddingResult.Mv)
           me == inv[i]
       IN IF IsSet(me.cluster1) /\ IsSet(me.cluster2)
          THEN /\ inv' = [inv EXCEPT ![i] =
                      [me EXCEPT !.pc = "analyzeClusters",
                                 !.scaledData = Some(embeddingResult.scaled_data),
                                 !.Ms = Some(embeddingResult.Ms),
                                 !.Mv = Some(embeddingResult.Mv),
                                 !.seq = nAnalyze + 1,
                                 !.stages = Append(@, "analyzeClusters"),
                                 !.request = Some(
                                     AnalyzeRequest(nAnalyze + 1,
                                         Val(me.cluster1), Val(me.cluster2),
                                         embeddingResult.scaled_data,
                                         embeddingResult.Ms, embeddingResult.Mv))]]
               /\ nAnalyze' = nAnalyze + 1
               /\ UNCHANGED <<embeddingData, scaledData, Ms, Mv, analysisHistory,
                              selectedHistoryIds, isLoading>>
          ELSE /\ embeddingData' = set.embeddingData
               /\ scaledData' = set.scaledData
               /\ Ms' = set.Ms
               /\ Mv' = set.Mv
               /\ analysisHistory' = set.analysisHistory
               /\ selectedHistoryIds' = set.selectedHistoryIds
               /\ StoreOrchestration(
                    analyzeIfReady([inv |-> [inv EXCEPT ![i] = Finished(me, "done")],
                                    isLoading |-> Finally(isLoading),
                                    nAnalyze |-> nAnalyze],
                                   clusters, set.scaledData, set.Ms, set.Mv))
    /\ UNCHANGED <<configPc, classWeights, clusters, topFeatures,
                   contributionMatrix, interpretation, clock>>
    /\ UNCHANGED compareVars

(* computeEmbedding of manual invocation i resolved: setEmbeddingData, then *)
(* either the analyzeClusters request or the end of the invocation, then    *)
(* the auto-analyze effect (scaledData, Ms, Mv changed).                    *)
EmbeddingResolved(i, resp) ==
    /\ i \in 1..Len(inv)
    /\ inv[i].pc = "computeEmbedding"
    /\ LET embeddingResult == EmbeddingResult(i, resp)
           set == setEmbeddingData(embeddingResult.embedding, embeddingResult.labels,
                                   embeddingResult.scaled_data,
                                   embeddingResult.Ms, embeddingResult.Mv)
           me == inv[i]
           handler ==
             IF IsSet(me.cluster1) /\ IsSet(me.cluster2)
             THEN [inv |-> [inv EXCEPT ![i] =
                      [me EXCEPT !.pc = "analyzeClusters",
                                 !.scaledData = Some(embeddingResult.scaled_data),
                                 !.Ms = Some(embeddingResult.Ms),
                                 !.Mv = Some(embeddingResult.Mv),
                                 !.seq = nAnalyze + 1,
                                 !.stages = Append(@, "analyzeClusters"),
                                 !.request = Some(
                                     AnalyzeRequest(nAnalyze + 1,
                                         Val(me.cluster1), Val(me.cluster2),
                                         embeddingResult.scaled_data,
                                         embeddingResult.Ms, embeddingResult.Mv))]],
                   isLoading |-> isLoading,
                   nAnalyze |-> nAnalyze + 1]
             ELSE [inv |-> [inv EXCEPT ![i] = Finished(me, "done")],
                   isLoading |-> Finally(isLoading),
                   nAnalyze |-> nAnalyze]
       IN /\ embeddingData' = set.embeddingData
          /\ scaledData' = set.scaledData
          /\ Ms' = set.Ms
          /\ Mv' = set.Mv
          /\ analysisHistory' = set.analysisHistory
          /\ selectedHistoryIds' = set.selectedHistoryIds
          /\ StoreOrchestration(
               analyzeIfReady(handler, clusters, set.scaledData, set.Ms, set.Mv))
    /\ UNCHANGED <<configPc, classWeights, clusters, topFeatures,
                   contributionMatrix, interpretation, clock>>
    /\ UNCHANGED compareVars

(* mutant: an epoch check, only the latest-issued request's answer is kept *)
AnalysisResolvedLatestOnly(i, items) ==
    /\ i \in 1..Len(inv)
    /\ inv[i].pc = "analyzeClusters"
    /\ LET analysisResult == AnalysisResult(i, Val(inv[i].request), items)
           me == inv[i]
       IN /\ IF me.seq = nAnalyze
             THEN /\ topFeatures' = Some(analysisResult.top_features)
                  /\ contributionMatrix' = Some(analysisResult.contribution_matrix)
             ELSE UNCHANGED <<topFeatures, contributionMatrix>>
          /\ inv' = [inv EXCEPT ![i] =
                      [me EXCEPT !.pc = "interpretClusters",
                                 !.analysisResult = Some(analysisResult),
                                 !.stages = Append(@, "interpretClusters"),
                                 !.request = Some(
                                     InterpretRequest(analysisResult.top_features,
                                         Len(Val(me.cluster1)),
                                         Len(Val(me.cluster2))))]]
    /\ UNCHANGED <<configPc, classWeights, embeddingData, scaledData, Ms, Mv,
                   clusters, interpretation, analysisHistory, selectedHistoryIds,
                   isLoading, nAnalyze, clock>>
    /\ UNCHANGED compareVars

(* mutant: the interpretation is requested with the sizes of the clusters  *)
(* of the store at the time of the response                                *)
AnalysisResolvedCurrentSizes(i, items) ==
    /\ i \in 1..Len(inv)
    /\ inv[i].pc = "analyzeClusters"
    /\ LET analysisResult == AnalysisResult(i, Val(inv[i].request), items)
           me == inv[i]
       IN /\ topFeatures' = Some(analysisResult.top_features)
          /\ contributionMatrix' = Some(analysisResult.contribution_matrix)
          /\ inv' = [inv EXCEPT ![i] =
                      [me EXCEPT !.pc = "interpretClusters",
                                 !.analysisResult = Some(analysisResult),
                                 !.stages = Append(@, "interpretClusters"),
                                 !.request = Some(
                                     InterpretRequest(analysisResult.top_features,
                                         Len(OrEmpty(clusters.cluster1)),
                                         Len(OrEmpty(clusters.cluster2))))]]
    /\ UNCHANGED <<configPc, classWeights, embeddingData, scaledData, Ms, Mv,
                   clusters, interpretation, analysisHistory, selectedHistoryIds,
                   isLoading, nAnalyze, clock>>
    /\ UNCHANGED compareVars

(* analyzeClusters of invocation i resolved: setAnalysisResults, then the  *)
(* interpretClusters request                                               *)
AnalysisResolved(i, items) ==
    /\ i \in 1..Len(inv)
    /\ inv[i].pc = "analyzeClusters"
    /\ LET analysisResult == AnalysisResult(i, Val(inv[i].request), items)
           me == inv[i]
       IN /\ topFeatures' = Some(analysisResult.top_features)
          /\ contributionMatrix' = Some(analysisResult.contribution_matrix)
          /\ inv' = [inv EXCEPT ![i] =
                      [me EXCEPT !.pc = "interpretClusters",
                                 !.analysisResult = Some(analysisResult),
                                 !.stages = Append(@, "interpretClusters"),
                                 !.request = Some(
                                     InterpretRequest(analysisResult.top_features,
                                         Len(Val(me.cluster1)),
                                         Len(Val(me.cluster2))))]]
    /\ UNCHANGED <<configPc, classWeights, embeddingData, scaledData, Ms, Mv,
                   clusters, interpretation, analysisHistory, selectedHistoryIds,
                   isLoading, nAnalyze, clock>>
    /\ UNCHANGED compareVars

(* interpretClusters of invocation i resolved: setInterpretation, finally *)
InterpretationResolved(i) ==
    /\ i \in 1..Len(inv)
    /\ inv[i].pc = "interpretClusters"
    /\ LET me == inv[i]
           interpretationResult ==
               InterpretationResult(i, Val(me.request))
       IN interpretation' = Some(interpretationResult.sections)
    /\ inv' = [inv EXCEPT ![i] = Finished(inv[i], "done")]
    /\ isLoading' = Finally(isLoading)
    /\ UNCHANGED <<configPc, classWeights, embeddingData, scaledData, Ms, Mv,
                   clusters, topFeatures, contributionMatrix, analysisHistory,
                   selectedHistoryIds, nAnalyze, clock>>
    /\ UNCHANGED compareVars

(* mutant: the catch block clears the results held *)
RemoteFailedClears(i) ==
    /\ InFlight(i)
    /\ inv' = [inv EXCEPT ![i] = Finished(inv[i], "failed")]
    /\ isLoading' = Finally(isLoading)
    /\ topFeatures' = Null
    /\ contributionMatrix' = Null
    /\ interpretation' = Null
    /\ UNCHANGED <<configPc, classWeights, embeddingData, scaledData, Ms, Mv,
                   clusters, analysisHistory, selectedHistoryIds, nAnalyze, clock>>
    /\ UNCHANGED compareVars

(* mutant: setIsLoading(false) at the end of the try block, not in finally *)
RemoteFailedNoFinally(i) ==
    /\ InFlight(i)
    /\ inv' = [inv EXCEPT ![i] = Finished(inv[i], "failed")]
    /\ UNCHANGED <<configPc, classWeights, storeVars, isLoading, nAnalyze, clock>>
    /\ UNCHANGED compareVars

(* the awaited remote call of invocation i rejected: catch, finally *)
RemoteFailed(i) ==
    /\ InFlight(i)
    /\ inv' = [inv EXCEPT ![i] = Finished(inv[i], "failed")]
    /\ isLoading' = Finally(isLoading)
    /\ UNCHANGED <<configPc, classWeights, storeVars, nAnalyze, clock>>
    /\ UNCHANGED compareVars

(* mutant: handleBrushEnd without the return on an empty selection *)
BrushEndNoEmptyCheck(selection) ==
    /\ Len(embeddingData) > 0
    /\ IF ~IsSet(selection)
       THEN UNCHANGED <<clusters, isLoading, inv, nAnalyze>>
       ELSE LET cl == AssignSelection(clusters,
                         SelectedIndices(embeddingData, clusters, Val(selection)))
            IN /\ clusters' = cl
               /\ SetOrchestration(
                    analyzeIfReady(Orchestration, cl, scaledData, Ms, Mv))
    /\ UNCHANGED <<configPc, classWeights, embeddingData, scaledData, Ms, Mv,
                   topFeatures, contributionMatrix, interpretation,
                   analysisHistory, selectedHistoryIds, clock>>
    /\ UNCHANGED compareVars

(* handleBrushEnd, then the auto-analyze effect when the clusters changed. *)
(* The brush exists only while the plot is drawn (embeddingData non-empty). *)
BrushEnd(selection) ==
    /\ Len(embeddingData) > 0
    /\ LET selectedIndices ==
               IF IsSet(selection)
               THEN SelectedIndices(embeddingData, clusters, Val(selection))
               ELSE <<>>
       IN IF ~IsSet(selection) \/ Len(selectedIndices) = 0
          THEN UNCHANGED <<clusters, isLoading, inv, nAnalyze>>
          ELSE LET cl == AssignSelection(clusters, selectedIndices)
               IN /\ clusters' = cl
                  /\ SetOrchestration(
                       analyzeIfReady(Orchestration, cl, scaledData, Ms, Mv))
    /\ UNCHANGED <<configPc, classWeights, embeddingData, scaledData, Ms, Mv,
                   topFeatures, contributionMatrix, interpretation,
                   analysisHistory, selectedHistoryIds, clock>>
    /\ UNCHANGED compareVars

(* The "Clear Cluster 1" button of the Sidebar, shown while cluster1 is    *)
(* set. Its onClick is the store's clearCluster1, which the store does not *)
(* define: the click runs no handler.                                      *)
ClearCluster1Click ==
    /\ IsSet(clusters.cluster1)
    /\ UNCHANGED <<configPc, classWeights, storeVars, isLoading, inv, nAnalyze, clock>>
    /\ UNCHANGED compareVars

ClearCluster2Click ==
    /\ IsSet(clusters.cluster2)
    /\ UNCHANGED <<configPc, classWeights, storeVars, isLoading, inv, nAnalyze, clock>>
    /\ UNCHANGED compareVars

(* resetClusters (the Reset button), then the auto-analyze effect *)
ResetClick ==
    /\ clusters' = resetClusters.clusters
    /\ topFeatures' = resetClusters.topFeatures
    /\ contributionMatrix' = resetClusters.contributionMatrix
    /\ interpretation' = resetClusters.interpretation
    /\ SetOrchestration(
         analyzeIfReady(Orchestration, resetClusters.clusters, scaledData, Ms, Mv))
    /\ UNCHANGED <<configPc, classWeights, embeddingData, scaledData, Ms, Mv,
                   analysisHistory, selectedHistoryIds, clock>>
    /\ UNCHANGED compareVars

(* the guard of saveCurrentAnalysis *)
CanSave ==
    /\ IsSet(clusters.cluster1)
    /\ IsSet(clusters.cluster2)
    /\ IsSet(topFeatures)
    /\ IsSet(interpretation)

(* mutant: the guard of saveCurrentAnalysis forgets the clusters and an    *)
(* unset cluster is saved as an empty index set                            *)
SaveClickLenient(maxSaves) ==
    /\ ~isLoading
    /\ IsSet(interpretation) /\ Len(Val(interpretation).texts) # 0
    /\ IsSet(topFeatures) /\ Len(Val(topFeatures).items) > 0
    /\ clock < maxSaves
    /\ clock' = clock + 1
    /\ analysisHistory' =
         PrependBounded(analysisHistory,
             NewAnalysis(clock + 1,
                 [cluster1 |-> Some(OrEmpty(clusters.cluster1)),
                  cluster2 |-> Some(OrEmpty(clusters.cluster2))],
                 topFeatures, interpretation))
    /\ UNCHANGED <<configPc, classWeights, embeddingData, scaledData, Ms, Mv,
                   clusters, topFeatures, contributionMatrix, interpretation,
                   selectedHistoryIds, isLoading, inv, nAnalyze>>
    /\ UNCHANGED compareVars

(* The "Save to History" button of SummaryTab, shown when not loading and  *)
(* interpretation and topFeatures are non-empty, then saveCurrentAnalysis. *)
SaveClick(maxSaves) ==
    /\ ~isLoading
    /\ IsSet(interpretation) /\ Len(Val(interpretation).texts) # 0
    /\ IsSet(topFeatures) /\ Len(Val(topFeatures).items) > 0
    /\ clock < maxSaves
    /\ IF ~CanSave
       THEN UNCHANGED <<analysisHistory, clock>>
       ELSE /\ clock' = clock + 1
            /\ analysisHistory' =
                 PrependBounded(analysisHistory,
                     NewAnalysis(clock + 1, clusters, topFeatures, interpretation))
    /\ UNCHANGED <<configPc, classWeights, embeddingData, scaledData, Ms, Mv,
                   clusters, topFeatures, contributionMatrix, interpretation,
                   selectedHistoryIds, isLoading, inv, nAnalyze>>
    /\ UNCHANGED compareVars

(* a click on an item of HistoryTab: toggleHistorySelection(analysis.id) *)
ToggleClick(id) ==
    /\ id \in Range(HistoryIds(analysisHistory))
    /\ selectedHistoryIds' = toggleHistorySelection(selectedHistoryIds, id)
    /\ UNCHANGED <<configPc, classWeights, embeddingData, scaledData, Ms, Mv,
                   clusters, topFeatures, contributionMatrix, interpretation,
                   analysisHistory, isLoading, inv, nAnalyze, clock>>
    /\ UNCHANGED compareVars

(* "Clear All" of HistoryTab, shown while History is not empty *)
ClearHistoryClick ==
    /\ Len(analysisHistory) # 0
    /\ analysisHistory' = clearHistory.analysisHistory
    /\ selectedHistoryIds' = clearHistory.selectedHistoryIds
    /\ UNCHANGED <<configPc, classWeights, embeddingData, scaledData, Ms, Mv,
                   clusters, topFeatures, contributionMatrix, interpretation,
                   isLoading, inv, nAnalyze, clock>>
    /\ UNCHANGED compareVars

(* selectedAnalyses of CompareTab *)
SelectedAnalyses ==
    Filter(analysisHistory,
           {k \in 1..Len(analysisHistory) :
               analysisHistory[k].id \in Range(selectedHistoryIds)})

(* "Clear Selection" of CompareTab, shown while two saved analyses are     *)
(* selected: clearHistorySelection, setComparisonResult(null)              *)
ClearSelectionClick ==
    /\ Len(SelectedAnalyses) = 2
    /\ selectedHistoryIds' = <<>>
    /\ comparisonResult' = Null
    /\ UNCHANGED <<isComparing, compareCall>>
    /\ UNCHANGED <<configPc, classWeights, embeddingData, scaledData, Ms, Mv,
                   clusters, topFeatures, contributionMatrix, interpretation,
                   analysisHistory, isLoading, inv, nAnalyze, clock>>

(* an argument of compareAnalyses, built from a saved analysis *)
AnalysisSummaryInput(a) ==
    [cluster1_size |-> a.cluster1_size,
     cluster2_size |-> a.cluster2_size,
     significant_count |-> a.summary.significant_count,
     top_variables |-> a.summary.top_variables,
     top_racks |-> a.summary.top_racks,
     top_features |->
        LET first == Slice(a.top_features.items, 0, TopFeaturesSent)
        IN [k \in 1..Len(first) |->
               [rack |-> first[k].rack, variable |-> first[k].variable]]]

(* mutant: CompareTab rendered for any non-empty selection, a single       *)
(* selected analysis compared with itself                                  *)
CompareClickAnySelection ==
    /\ Len(SelectedAnalyses) >= 1
    /\ ~isComparing
    /\ isComparing' = TRUE
    /\ compareCall' =
          Some([analysis_a |-> AnalysisSummaryInput(SelectedAnalyses[1]),
                analysis_b |-> AnalysisSummaryInput(
                                  SelectedAnalyses[Len(SelectedAnalyses)])])
    /\ UNCHANGED <<configPc, classWeights, storeVars, isLoading, inv, nAnalyze,
                   clock, comparisonResult>>

(* "Analyze Difference" of CompareTab, rendered while two saved analyses   *)
(* are selected and disabled while comparing: handleAnalyzeDifference up   *)
(* to await compareAnalyses                                                *)
CompareClick ==
    /\ Len(SelectedAnalyses) = 2
    /\ ~isComparing
    /\ isComparing' = TRUE
    /\ compareCall' = Some([analysis_a |-> AnalysisSummaryInput(SelectedAnalyses[1]),
                            analysis_b |-> AnalysisSummaryInput(SelectedAnalyses[2])])
    /\ UNCHANGED <<configPc, classWeights, storeVars, isLoading, inv, nAnalyze,
                   clock, comparisonResult>>

(* compareAnalyses resolved: setComparisonResult(result.sections), finally *)
CompareResolved ==
    /\ IsSet(compareCall)
    /\ comparisonResult' = Some([about |-> Val(compareCall),
                                 texts |-> <<"comparison">>])
    /\ isComparing' = FALSE
    /\ compareCall' = Null
    /\ UNCHANGED <<configPc, classWeights, storeVars, isLoading, inv, nAnalyze, clock>>

(* compareAnalyses rejected: catch, finally *)
CompareFailed ==
    /\ IsSet(compareCall)
    /\ isComparing' = FALSE
    /\ compareCall' = Null
    /\ UNCHANGED <<configPc, classWeights, storeVars, isLoading, inv, nAnalyze,
                   clock, comparisonResult>>

-----------------------------------------------------------------------------
(* The selection and orchestration engine: configuration, the manual and  *)
(* the automatic pipeline, the brush, the cluster buttons                 *)

Next ==
    \/ LoadConfigOk
    \/ LoadConfigFailed
    \/ ExecuteClick
    \/ \E i \in Invocations, resp \in EmbeddingResponses :
          EmbeddingResolved(i, resp)
    \/ \E i \in Invocations, items \in FeatureLists :
          AnalysisResolved(i, items)
    \/ \E i \in Invocations : InterpretationResolved(i)
    \/ \E i \in Invocations : RemoteFailed(i)
    \/ \E selection \in BrushSelections : BrushEnd(selection)
    \/ ClearCluster1Click
    \/ ClearCluster2Click
    \/ ResetClick

Spec == Init /\ [][Next]_vars

(* a remote call of invocation i resolves or rejects *)
Respond(i) ==
    \/ \E resp \in EmbeddingResponses : EmbeddingResolved(i, resp)
    \/ \E items \in FeatureLists : AnalysisResolved(i, items)
    \/ InterpretationResolved(i)
    \/ RemoteFailed(i)

(* every remote call eventually resolves or rejects *)
LiveSpec == Spec /\ \A i \in Invocations : WF_vars(Respond(i))

-----------------------------------------------------------------------------
(* The history manager, from the state after a first completed analysis:  *)
(* config loaded, execute (invocation 1), embedding received, two brushes, *)
(* the automatic invocation 2 resolved twice.                              *)

FirstEmbedding ==
    CHOOSE resp \in EmbeddingResponses : Len(resp.embedding) = 4

FirstFeatures == CHOOSE items \in FeatureLists : TRUE

InitHistory ==
    LET embeddingResult == EmbeddingResult(1, FirstEmbedding)
        set == setEmbeddingData(embeddingResult.embedding, embeddingResult.labels,
                                embeddingResult.scaled_data,
                                embeddingResult.Ms, embeddingResult.Mv)
        analysisResult ==
            AnalysisResult(2, AnalyzeRequest(1, <<0>>, <<2, 3>>,
                                             embeddingResult.scaled_data,
                                             embeddingResult.Ms, embeddingResult.Mv),
                           FirstFeatures)
        request == InterpretRequest(analysisResult.top_features, 1, 2)
        manual == [kind |-> "manual", pc |-> "done"]
        auto == [kind |-> "auto", pc |-> "done"]
    IN /\ configPc = "loaded"
       /\ classWeights = NClasses
       /\ analysisHistory = <<>>
       /\ selectedHistoryIds = <<>>
       /\ embeddingData = set.embeddingData
       /\ scaledData = set.scaledData
       /\ Ms = set.Ms
       /\ Mv = set.Mv
       /\ clusters = [cluster1 |-> Some(<<0>>), cluster2 |-> Some(<<2, 3>>)]
       /\ topFeatures = Some(analysisResult.top_features)
       /\ contributionMatrix = Some(analysisResult.contribution_matrix)
       /\ interpretation = Some(InterpretationResult(2, request).sections)
       /\ isLoading = FALSE
       /\ inv = <<Finished(manual, "done"), Finished(auto, "done")>>
       /\ nAnalyze = 1
       /\ clock = 0
       /\ isComparing = FALSE
       /\ compareCall = Null
       /\ comparisonResult = Null

NextHistory ==
    \/ SaveClick(MaxSaves)
    \/ \E id \in 1..MaxSaves : ToggleClick(id)
    \/ ClearHistoryClick
    \/ ClearSelectionClick
    \/ CompareClick
    \/ CompareResolved
    \/ CompareFailed

SpecHistory == InitHistory /\ [][NextHistory]_vars

-----------------------------------------------------------------------------
(* A whole session: the pipeline, the brush and the cluster buttons        *)
(* together with saves and the comparison selection, from the state after  *)
(* a first completed analysis.                                             *)

NextSession ==
    \/ ExecuteClick
    \/ \E i \in Invocations, resp \in EmbeddingResponses :
          EmbeddingResolved(i, resp)
    \/ \E i \in Invocations, items \in FeatureLists :
          AnalysisResolved(i, items)
    \/ \E i \in Invocations : InterpretationResolved(i)
    \/ \E i \in Invocations : RemoteFailed(i)
    \/ \E selection \in BrushSelections : BrushEnd(selection)
    \/ ClearCluster1Click
    \/ ClearCluster2Click
    \/ ResetClick
    \/ SaveClick(MaxSessionSaves)
    \/ \E id \in 1..MaxSessionSaves : ToggleClick(id)
    \/ ClearHistoryClick
    \/ ClearSelectionClick

SpecSession == InitHistory /\ [][NextSession]_vars

-----------------------------------------------------------------------------
(* The brush on embeddings whose x values span [0, 10], with rectangles    *)
(* given by the data values their x bounds map to, from the state after a  *)
(* first manual invocation without clusters.                               *)

ScaleXs == {2, 5, 8}

ScaleEmbeddings ==
    { [embedding |-> << <<0, 1>>, <<a, 2>>, <<b, 3>>, <<10, 4>> >>,
       labels |-> <<0, 1, 2, 0>>] : a, b \in ScaleXs }

DataBounds == {0, 2, 8, 10}

(* the rectangle whose x bounds are the screen positions of the data       *)
(* values a and b and whose y bounds are those of the plot                 *)
ScaleRect(points, a, b) ==
    [x0 |-> xScale(points, a), y0 |-> Q(0),
     x1 |-> xScale(points, b), y1 |-> Q(innerHeight)]

ScaleSelections(points) ==
    {Some(ScaleRect(points, ab[1], ab[2])) :
        ab \in {ab \in DataBounds \X DataBounds : ab[1] <= ab[2]}}

InitScale ==
    \E resp \in ScaleEmbeddings :
       LET embeddingResult == EmbeddingResult(1, resp)
           set == setEmbeddingData(embeddingResult.embedding,
                                   embeddingResult.labels,
                                   embeddingResult.scaled_data,
                                   embeddingResult.Ms, embeddingResult.Mv)
           manual == [kind |-> "manual", pc |-> "done"]
       IN /\ configPc = "loaded"
          /\ classWeights = NClasses
          /\ analysisHistory = <<>>
          /\ selectedHistoryIds = <<>>
          /\ embeddingData = set.embeddingData
          /\ scaledData = set.scaledData
          /\ Ms = set.Ms
          /\ Mv = set.Mv
          /\ clusters = [cluster1 |-> Null, cluster2 |-> Null]
          /\ topFeatures = Null
          /\ contributionMatrix = Null
          /\ interpretation = Null
          /\ isLoading = FALSE
          /\ inv = <<Finished(manual, "done")>>
          /\ nAnalyze = 0
          /\ clock = 0
          /\ isComparing = FALSE
          /\ compareCall = Null
          /\ comparisonResult = Null

NextScale ==
    \E selection \in ScaleSelections(embeddingData) : BrushEnd(selection)

SpecScale == InitScale /\ [][NextScale]_vars

-----------------------------------------------------------------------------
(* Saves of analyses whose top features are any list of up to MaxFeatures  *)
(* features over the variables of the default configuration, from the      *)
(* state after a first completed analysis.                                 *)

VariableNames == {"AirIn", "AirOut", "CPU", "Water"}

SummaryFeatureLists ==
    UNION { [1..n -> {[rack |-> "r1", variable |-> v, significant |-> TRUE] :
                         v \in VariableNames}] : n \in 1..MaxFeatures }

InitSummary ==
    \E items \in SummaryFeatureLists :
       LET embeddingResult == EmbeddingResult(1, FirstEmbedding)
           set == setEmbeddingData(embeddingResult.embedding,
                                   embeddingResult.labels,
                                   embeddingResult.scaled_data,
                                   embeddingResult.Ms, embeddingResult.Mv)
           analysisResult ==
               AnalysisResult(2, AnalyzeRequest(1, <<0>>, <<2, 3>>,
                                                embeddingResult.scaled_data,
                                                embeddingResult.Ms,
                                                embeddingResult.Mv),
                              items)
           request == InterpretRequest(analysisResult.top_features, 1, 2)
           manual == [kind |-> "manual", pc |-> "done"]
           auto == [kind |-> "auto", pc |-> "done"]
       IN /\ configPc = "loaded"
          /\ classWeights = NClasses
          /\ analysisHistory = <<>>
          /\ selectedHistoryIds = <<>>
          /\ embeddingData = set.embeddingData
          /\ scaledData = set.scaledData
          /\ Ms = set.Ms
          /\ Mv = set.Mv
          /\ clusters = [cluster1 |-> Some(<<0>>), cluster2 |-> Some(<<2, 3>>)]
          /\ topFeatures = Some(analysisResult.top_features)
          /\ contributionMatrix = Some(analysisResult.contribution_matrix)
          /\ interpretation = Some(InterpretationResult(2, request).sections)
          /\ isLoading = FALSE
          /\ inv = <<Finished(manual, "done"), Finished(auto, "done")>>
          /\ nAnalyze = 1
          /\ clock = 0
          /\ isComparing = FALSE
          /\ compareCall = Null
          /\ comparisonResult = Null

NextSummary == SaveClick(MaxSessionSaves)

SpecSummary == InitSummary /\ [][NextSummary]_vars

-----------------------------------------------------------------------------
(* Cluster selection                                                       *)

BothFilled(cl) == IsSet(cl.cluster1) /\ IsSet(cl.cluster2)

(* C1: in every reachable state no point index belongs to both cluster1    *)
(* and cluster2 (a cluster that is not set has no indices).                *)
C1_ClustersDisjoint ==
    Range(OrEmpty(clusters.cluster1)) \cap Range(OrEmpty(clusters.cluster2)) = {}

(* both clusters hold points of the plot *)
C1_Witness ==
    /\ BothFilled(clusters)
    /\ Len(Val(clusters.cluster1)) > 0
    /\ Len(Val(clusters.cluster2)) > 0

(* C2: a non-empty selection gesture fills cluster1 when it is empty,      *)
(* cluster2 when only cluster1 is set, and when both are set replaces      *)
(* cluster1 by the new candidates and clears cluster2.                     *)
C2_SelectionSequence ==
    [][\A r \in Rects :
         LET S == SelectedIndices(embeddingData, clusters, r)
         IN (BrushEnd(Some(r)) /\ Len(S) > 0) =>
              clusters' =
                IF ~IsSet(clusters.cluster1)
                THEN [cluster1 |-> Some(S), cluster2 |-> Null]
                ELSE IF ~IsSet(clusters.cluster2)
                THEN [cluster1 |-> clusters.cluster1, cluster2 |-> Some(S)]
                ELSE [cluster1 |-> Some(S), cluster2 |-> Null]]_vars

(* After a third gesture: cluster1 is the single point 1, which the first  *)
(* gesture on either embedding cannot select alone, cluster2 is empty, and *)
(* the invocation started by the second gesture still holds the two        *)
(* clusters that the third gesture replaced.                               *)
C2_Witness ==
    /\ clusters = [cluster1 |-> Some(<<1>>), cluster2 |-> Null]
    /\ \E i \in 1..Len(inv) :
          /\ inv[i].kind = "auto"
          /\ InFlight(i)
          /\ IsSet(inv[i].cluster1)
          /\ IsSet(inv[i].cluster2)
          /\ 1 \notin Range(Val(inv[i].cluster1))

-----------------------------------------------------------------------------
(* Pipeline orchestration                                                  *)

(* C3: a step that takes the selection from not BothFilled to BothFilled   *)
(* while scaled data, Ms and Mv are held starts exactly one automatic      *)
(* invocation, whose first request is analyzeClusters for the new          *)
(* clusters; an automatic invocation requests analyzeClusters and then, on *)
(* success only, interpretClusters, and never computeEmbedding.            *)
C3_AutoInvocation ==
    /\ [](\A i \in 1..Len(inv) :
            (inv[i].kind = "auto" /\ InFlight(i)) =>
               /\ inv[i].stages \in {<<"analyzeClusters">>,
                                     <<"analyzeClusters", "interpretClusters">>}
               /\ inv[i].pc = inv[i].stages[Len(inv[i].stages)]
               /\ Val(inv[i].request).stage = inv[i].pc)
    /\ [][(/\ ~BothFilled(clusters)
           /\ BothFilled(clusters')
           /\ IsSet(scaledData) /\ IsSet(Ms) /\ IsSet(Mv)) =>
             /\ Len(inv') = Len(inv) + 1
             /\ \A i \in 1..Len(inv) : inv'[i] = inv[i]
             /\ LET new == inv'[Len(inv')]
                IN /\ new.kind = "auto"
                   /\ new.stages = <<"analyzeClusters">>
                   /\ new.request =
                        Some(AnalyzeRequest(nAnalyze + 1,
                                 Val(clusters'.cluster1), Val(clusters'.cluster2),
                                 Val(scaledData), Val(Ms), Val(Mv)))]_vars
    /\ [][\A i \in 1..Len(inv) :
            (inv[i].kind = "auto" /\ inv[i].pc = "analyzeClusters"
                /\ inv'[i].pc # "analyzeClusters") =>
               \/ inv'[i].pc = "failed"
               \/ /\ inv'[i].pc = "interpretClusters"
                  /\ IsSet(topFeatures') /\ Val(topFeatures').src = i]_vars

(* an automatic invocation whose analysis succeeded awaits interpretation *)
C3_Witness ==
    \E i \in 1..Len(inv) :
       /\ inv[i].kind = "auto"
       /\ inv[i].pc = "interpretClusters"
       /\ inv[i].stages = <<"analyzeClusters", "interpretClusters">>

(* the Execute command starts a manual invocation *)
ExecuteStarts ==
    /\ ExecuteClick
    /\ Len(inv') = Len(inv) + 1
    /\ inv'[Len(inv')].kind = "manual"
    /\ inv'[Len(inv')].stages = <<"computeEmbedding">>

(* C4 as stated: whenever the Execute command can be given, it requests    *)
(* computeEmbedding first, whatever the selection is.                      *)
C4_ExecuteAlwaysRequests ==
    (~isLoading /\ Len(inv) < MaxInvocations) => ENABLED ExecuteStarts

(* C4 amended: with class weights loaded, the Execute command requests     *)
(* computeEmbedding first whatever the selection is, and goes on to        *)
(* analyzeClusters exactly when stage 1 succeeded and both clusters were   *)
(* set when the command was given, then to interpretClusters on success;   *)
(* with no class weights the command requests nothing.                     *)
C4_ManualInvocation ==
    /\ [](\A i \in 1..Len(inv) :
            (inv[i].kind = "manual" /\ InFlight(i)) =>
               /\ inv[i].stages \in
                     {<<"computeEmbedding">>,
                      <<"computeEmbedding", "analyzeClusters">>,
                      <<"computeEmbedding", "analyzeClusters", "interpretClusters">>}
               /\ inv[i].pc = inv[i].stages[Len(inv[i].stages)]
               /\ Val(inv[i].request).stage = inv[i].pc)
    /\ []((classWeights # 0 /\ ~isLoading /\ Len(inv) < MaxInvocations) =>
             ENABLED ExecuteStarts)
    /\ [][ExecuteClick =>
            IF classWeights = 0
            THEN UNCHANGED vars
            ELSE /\ Len(inv') = Len(inv) + 1
                 /\ \A i \in 1..Len(inv) : inv'[i] = inv[i]
                 /\ LET new == inv'[Len(inv')]
                    IN /\ new.kind = "manual"
                       /\ new.stages = <<"computeEmbedding">>
                       /\ new.cluster1 = clusters.cluster1
                       /\ new.cluster2 = clusters.cluster2]_vars
    /\ [][\A i \in 1..Len(inv) :
            (inv[i].kind = "manual" /\ inv[i].pc = "computeEmbedding"
                /\ inv'[i].pc # "computeEmbedding") =>
               /\ inv'[i].pc \in {"analyzeClusters", "done", "failed"}
               /\ inv'[i].pc = "analyzeClusters" <=>
                     /\ IsSet(scaledData') /\ Val(scaledData').src = i
                     /\ BothFilled(inv[i])
               /\ inv'[i].pc = "failed" => UNCHANGED scaledData]_vars
    /\ [][\A i \in 1..Len(inv) :
            (inv[i].kind = "manual" /\ inv[i].pc = "analyzeClusters"
                /\ inv'[i].pc # "analyzeClusters") =>
               \/ inv'[i].pc = "failed"
               \/ /\ inv'[i].pc = "interpretClusters"
                  /\ IsSet(topFeatures') /\ Val(topFeatures').src = i]_vars

(* a manual invocation given with both clusters set has requested all      *)
(* three stages                                                            *)
C4_Witness ==
    \E i \in 1..Len(inv) :
       /\ inv[i].kind = "manual"
       /\ inv[i].pc = "interpretClusters"
       /\ BothFilled(inv[i])
       /\ inv[i].stages =
            <<"computeEmbedding", "analyzeClusters", "interpretClusters">>

(* C5: a failed remote call ends its invocation: the failing step and the  *)
(* invocation afterwards issue no request, and the step writes none of the *)
(* embedding, top features, contribution matrix or interpretation, so the  *)
(* results held before the failure stay.                                   *)
C5_FailureAborts ==
    /\ [][\A i \in 1..Len(inv) :
            (InFlight(i) /\ inv'[i].pc = "failed") =>
               /\ inv'[i].request = Null
               /\ Len(inv') = Len(inv)
               /\ nAnalyze' = nAnalyze
               /\ UNCHANGED <<embeddingData, scaledData, Ms, Mv, topFeatures,
                              contributionMatrix, interpretation>>]_vars
    /\ [][\A i \in 1..Len(inv) :
            inv[i].pc = "failed" => inv'[i] = inv[i]]_vars

(* an invocation failed while the results of an earlier one are held *)
C5_Witness ==
    \E i \in 1..Len(inv) :
       /\ inv[i].pc = "failed"
       /\ inv[i].kind = "auto"
       /\ IsSet(topFeatures) /\ Val(topFeatures).src < i
       /\ IsSet(interpretation) /\ Val(interpretation).src < i

(* C6: every successful response is written when it arrives, whichever     *)
(* invocation it belongs to, so the results held are those of the response *)
(* that arrived last, not of the request that was issued last.             *)
C6_LastResponseWins ==
    [][\A i \in 1..Len(inv) :
         /\ (inv[i].pc = "analyzeClusters" /\ inv'[i].pc = "interpretClusters") =>
               /\ IsSet(topFeatures') /\ Val(topFeatures').src = i
               /\ IsSet(contributionMatrix') /\ Val(contributionMatrix').src = i
         /\ (inv[i].pc = "interpretClusters" /\ inv'[i].pc = "done") =>
               /\ IsSet(interpretation') /\ Val(interpretation').src = i]_vars

(* Two invocations overlap, both analyses have been answered, and the top  *)
(* features held are those of the request issued first.                    *)
C6_Witness ==
    \E i, j \in 1..Len(inv) :
       /\ inv[i].pc = "interpretClusters"
       /\ inv[j].pc = "interpretClusters"
       /\ inv[i].seq < inv[j].seq
       /\ IsSet(topFeatures) /\ Val(topFeatures).src = i

NoInFlight == \A i \in 1..Len(inv) : ~InFlight(i)

(* C7: the loading flag is true whenever any invocation is in flight.      *)
C7_LoadingWhileInFlight ==
    (\E i \in 1..Len(inv) : InFlight(i)) => isLoading

(* C8: every invocation eventually ends, by success or by failure, and the *)
(* loading flag is false whenever no invocation is in flight.              *)
C8_LoadingReleased ==
    /\ [](NoInFlight => ~isLoading)
    /\ \A i \in Invocations :
          (i \in 1..Len(inv) /\ InFlight(i)) ~>
             (i \in 1..Len(inv) /\ inv[i].pc \in {"done", "failed"})

(* nothing is in flight after one invocation succeeded and one failed *)
C8_Witness ==
    /\ NoInFlight
    /\ ~isLoading
    /\ \E i, j \in 1..Len(inv) : inv[i].pc = "failed" /\ inv[j].pc = "done"

-----------------------------------------------------------------------------
(* History                                                                 *)

(* C9: History holds at most 10 saved analyses, most recent first; a save  *)
(* puts the new entry at the head, and a save into a full History drops    *)
(* the oldest entry, at the tail.                                          *)
C9_HistoryBounded ==
    /\ [](/\ Len(analysisHistory) <= 10
          /\ \A k \in 1..(Len(analysisHistory) - 1) :
                analysisHistory[k].timestamp > analysisHistory[k + 1].timestamp)
    /\ [][clock' # clock =>
            /\ Len(analysisHistory') > 0
            /\ Head(analysisHistory').id = clock'
            /\ Tail(analysisHistory') =
                 IF Len(analysisHistory) = 10
                 THEN SubSeq(analysisHistory, 1, 9)
                 ELSE analysisHistory]_vars

(* eleven saves: the first saved analysis is gone, the eleventh is first *)
C9_Witness ==
    /\ Len(analysisHistory) = 10
    /\ analysisHistory[1].id = 11
    /\ analysisHistory[10].id = 2

(* C10: at most 2 saved analyses are selected for comparison; selecting a  *)
(* third, unselected one drops the earliest-selected and keeps the other   *)
(* followed by the new one.                                                *)
C10_SlidingWindow ==
    /\ [](Len(selectedHistoryIds) <= 2)
    /\ [][\A id \in 1..MaxSaves :
            (/\ ToggleClick(id)
             /\ id \notin Range(selectedHistoryIds)
             /\ Len(selectedHistoryIds) = 2) =>
               selectedHistoryIds' = <<selectedHistoryIds[2], id>>]_vars

(* analyses 1, 2 and 3 saved; 2 and 3 selected, in that order, which needs *)
(* a selection of 3 made after the one of 2                                *)
C10_Witness ==
    /\ Len(analysisHistory) = 3
    /\ selectedHistoryIds = <<2, 3>>

-----------------------------------------------------------------------------
(* Explicit operations and their frames                                    *)

(* C11: the reset can be invoked in every state; it leaves cluster1,       *)
(* cluster2, the top features, the contribution matrix and the             *)
(* interpretation unset, and the points, scaled data, Ms, Mv, History and  *)
(* the comparison selection as they were.                                  *)
C11_ResetFrame ==
    /\ [](ENABLED ResetClick)
    /\ [][ResetClick =>
            /\ clusters' = [cluster1 |-> Null, cluster2 |-> Null]
            /\ topFeatures' = Null
            /\ contributionMatrix' = Null
            /\ interpretation' = Null
            /\ UNCHANGED <<embeddingData, scaledData, Ms, Mv, analysisHistory,
                           selectedHistoryIds>>]_vars

(* After a reset: no cluster and no result while History and the           *)
(* comparison selection are not empty (a save needs both clusters, and     *)
(* only a reset unsets both without emptying History).                     *)
C11_Witness ==
    /\ clusters = [cluster1 |-> Null, cluster2 |-> Null]
    /\ topFeatures = Null /\ contributionMatrix = Null /\ interpretation = Null
    /\ Len(embeddingData) > 0 /\ IsSet(scaledData)
    /\ Len(analysisHistory) > 0
    /\ Len(selectedHistoryIds) > 0

(* C12: a new embedding empties History and the comparison selection and   *)
(* replaces the points, the scaled data, Ms and Mv by those of the         *)
(* response; clusters, top features, contribution matrix and               *)
(* interpretation keep their values, and so does the loading flag when the *)
(* handler goes on to its next request (no finally, no new invocation).    *)
C12_NewEmbeddingFrame ==
    [][\A i \in 1..Len(inv), resp \in EmbeddingResponses :
         EmbeddingResolved(i, resp) =>
            /\ analysisHistory' = <<>>
            /\ selectedHistoryIds' = <<>>
            /\ Len(embeddingData') = Len(resp.embedding)
            /\ \A k \in 1..Len(resp.embedding) :
                  embeddingData'[k] =
                     [x |-> resp.embedding[k][1], y |-> resp.embedding[k][2],
                      index |-> k - 1, label |-> resp.labels[k]]
            /\ scaledData' = Some([src |-> i, part |-> "scaled_data"])
            /\ Ms' = Some([src |-> i, part |-> "Ms"])
            /\ Mv' = Some([src |-> i, part |-> "Mv"])
            /\ UNCHANGED <<clusters, topFeatures, contributionMatrix,
                           interpretation>>
            /\ (inv'[i].pc = "analyzeClusters" /\ Len(inv') = Len(inv)) =>
                  UNCHANGED isLoading]_vars

(* A new embedding has arrived after a save: the embedding held is not the *)
(* one the session started with, History is empty although an analysis was *)
(* saved, and the results held are still those of the earlier invocation.  *)
C12_Witness ==
    /\ IsSet(scaledData) /\ Val(scaledData).src > 1
    /\ clock > 0
    /\ analysisHistory = <<>>
    /\ selectedHistoryIds = <<>>
    /\ IsSet(topFeatures) /\ Val(topFeatures).src < Val(scaledData).src
    /\ IsSet(interpretation)
    /\ IsSet(clusters.cluster1)

(* C13: a save while cluster1, cluster2, the top features or the           *)
(* interpretation is unset changes nothing; a save with all four set adds  *)
(* exactly one entry to History, at its head, and changes nothing else but *)
(* the id source.                                                          *)
C13_SaveGuard ==
    [][SaveClick(MaxSessionSaves) =>
         IF /\ IsSet(clusters.cluster1) /\ IsSet(clusters.cluster2)
            /\ IsSet(topFeatures) /\ IsSet(interpretation)
         THEN /\ Len(analysisHistory') = Len(analysisHistory) + 1
              /\ Tail(analysisHistory') = analysisHistory
              /\ Head(analysisHistory').id \notin
                    Range(HistoryIds(analysisHistory))
              /\ UNCHANGED <<configPc, classWeights, embeddingData, scaledData,
                             Ms, Mv, clusters, topFeatures, contributionMatrix,
                             interpretation, selectedHistoryIds, isLoading, inv,
                             nAnalyze, compareVars>>
         ELSE UNCHANGED vars]_vars

(* The save button is shown (results held, not loading) after a third      *)
(* gesture has emptied cluster2, with an earlier analysis in History.      *)
C13_Witness ==
    /\ ~isLoading
    /\ IsSet(topFeatures) /\ IsSet(interpretation)
    /\ IsSet(clusters.cluster1) /\ ~IsSet(clusters.cluster2)
    /\ Len(analysisHistory) = 1
    /\ clock < MaxSessionSaves
    /\ ENABLED SaveClick(MaxSessionSaves)

(* the positions of the points inside rectangle r that are in no cluster *)
Candidates(r) ==
    {k \in 1..Len(embeddingData) :
        /\ embeddingData[k].index \notin Range(OrEmpty(clusters.cluster1))
        /\ embeddingData[k].index \notin Range(OrEmpty(clusters.cluster2))
        /\ InRect(embeddingData, embeddingData[k], r)}

(* C14: a completed gesture whose candidate set is empty changes no state: *)
(* clusters, results and History stay and no invocation starts.            *)
C14_EmptyGestureNoOp ==
    [][\A r \in Rects :
         (BrushEnd(Some(r)) /\ Candidates(r) = {}) => UNCHANGED vars]_vars

(* Some rectangle covers points, all of them already assigned, while       *)
(* results and a saved analysis are held.                                  *)
C14_Witness ==
    /\ \E r \in Rects :
          /\ \E k \in 1..Len(embeddingData) :
                InRect(embeddingData, embeddingData[k], r)
          /\ Candidates(r) = {}
          /\ ENABLED BrushEnd(Some(r))
    /\ BothFilled(clusters)
    /\ IsSet(topFeatures) /\ IsSet(interpretation)
    /\ Len(analysisHistory) > 0

(* C15: wherever a cluster is set its clear operation unsets that cluster  *)
(* and leaves the other cluster, the results and History as they are.      *)
C15_ClearUnsetsOneCluster ==
    /\ IsSet(clusters.cluster1) =>
          ENABLED (/\ ClearCluster1Click
                   /\ clusters' = [cluster1 |-> Null,
                                   cluster2 |-> clusters.cluster2])
    /\ IsSet(clusters.cluster2) =>
          ENABLED (/\ ClearCluster2Click
                   /\ clusters' = [cluster1 |-> clusters.cluster1,
                                   cluster2 |-> Null])

(* cluster2 is never set while cluster1 is unset *)
Cluster2OnlyAfterCluster1 ==
    IsSet(clusters.cluster2) => IsSet(clusters.cluster1)

(* C16: while the comparison selection has 0 or 1 members the compare      *)
(* command is not available, and every compareAnalyses request is issued   *)
(* from a state whose selection has exactly 2 members, for the two         *)
(* selected analyses.                                                      *)
C16_CompareNeedsTwo ==
    /\ [](Len(selectedHistoryIds) \in {0, 1} => ~ENABLED CompareClick)
    /\ [][(IsSet(compareCall') /\ compareCall' # compareCall) =>
            /\ Len(selectedHistoryIds) = 2
            /\ \E a, b \in 1..Len(analysisHistory) :
                  /\ a < b
                  /\ {analysisHistory[a].id, analysisHistory[b].id}
                        = Range(selectedHistoryIds)
                  /\ Val(compareCall').analysis_a.cluster1_size
                        = analysisHistory[a].cluster1_size
                  /\ Val(compareCall').analysis_b.cluster1_size
                        = analysisHistory[b].cluster1_size]_vars

(* a comparison was made, then one of the two analyses was deselected *)
C16_Witness ==
    /\ IsSet(comparisonResult)
    /\ Len(selectedHistoryIds) = 1
    /\ Len(analysisHistory) >= 2
    /\ ~isComparing

(* C17: a saved analysis enters History only by a save made with both      *)
(* clusters, the top features and the interpretation set, holding exactly  *)
(* the values of that moment; while its id stays in History the entry is   *)
(* unchanged; an entry leaves History only from the tail of a full History *)
(* on a save, by clearHistory or by a new embedding.                       *)
C17_SavedAnalysisImmutable ==
    /\ [][\A k \in 1..Len(analysisHistory) :
            analysisHistory[k].id \in Range(HistoryIds(analysisHistory')) =>
               \E j \in 1..Len(analysisHistory') :
                  analysisHistory'[j] = analysisHistory[k]]_vars
    /\ [][\A j \in 1..Len(analysisHistory') :
            analysisHistory'[j].id \notin Range(HistoryIds(analysisHistory)) =>
               /\ j = 1
               /\ clock' = clock + 1
               /\ BothFilled(clusters) /\ IsSet(topFeatures) /\ IsSet(interpretation)
               /\ analysisHistory'[j].id = clock'
               /\ analysisHistory'[j].cluster1_indices = Val(clusters.cluster1)
               /\ analysisHistory'[j].cluster2_indices = Val(clusters.cluster2)
               /\ analysisHistory'[j].cluster1_size = Len(Val(clusters.cluster1))
               /\ analysisHistory'[j].cluster2_size = Len(Val(clusters.cluster2))
               /\ analysisHistory'[j].top_features = Val(topFeatures)
               /\ analysisHistory'[j].interpretation = Val(interpretation)
               /\ analysisHistory'[j].summary = Summary(Val(topFeatures).items)
               /\ UNCHANGED <<clusters, topFeatures, interpretation>>]_vars
    /\ [][\A k \in 1..Len(analysisHistory) :
            analysisHistory[k].id \notin Range(HistoryIds(analysisHistory')) =>
               \/ /\ clock' = clock + 1
                  /\ Len(analysisHistory) = 10
                  /\ k = 10
               \/ /\ analysisHistory' = <<>>
                  /\ \/ ClearHistoryClick
                     \/ /\ IsSet(scaledData') /\ scaledData' # scaledData
                        /\ Len(inv') >= Len(inv)]_vars

(* Two analyses saved from different invocations; the older one still      *)
(* holds its own clusters, features and interpretation although the        *)
(* clusters and the results held have changed since.                       *)
C17_Witness ==
    /\ Len(analysisHistory) = 2
    /\ analysisHistory[2].top_features.src # analysisHistory[1].top_features.src
    /\ analysisHistory[2].interpretation.src = analysisHistory[2].top_features.src
    /\ analysisHistory[2].cluster1_indices # analysisHistory[1].cluster1_indices
    /\ clusters.cluster1 # Some(analysisHistory[1].cluster1_indices)

-----------------------------------------------------------------------------
(* The selection rectangle                                                 *)

(* the x values of the current points *)
Xs == {embeddingData[k].x : k \in 1..Len(embeddingData)}

(* C18: the x domain of the selection scale is the x extent of the points  *)
(* widened by 15% of its range on each side, [-1.5, 11.5] for an extent    *)
(* of [0, 10]; a gesture whose x bounds map to the data values a and b     *)
(* (2 and 8 among them) and whose y bounds cover the plot takes exactly    *)
(* the unassigned points with a <= x <= b.                                 *)
C18_PaddedScale ==
    /\ [](LET ext == Extent(Xs)
              d == PaddedDomain(ext)
          IN /\ ext = <<0, 10>>
             /\ 10 * d[1].num = -15 * d[1].den
             /\ 10 * d[2].num = 115 * d[2].den
             /\ 100 * (ext[1] * d[1].den - d[1].num)
                   = 15 * (ext[2] - ext[1]) * d[1].den
             /\ 100 * (d[2].num - ext[2] * d[2].den)
                   = 15 * (ext[2] - ext[1]) * d[2].den)
    /\ [][\A a, b \in DataBounds :
            LET S == {embeddingData[k].index : k \in
                        {k \in 1..Len(embeddingData) :
                           /\ embeddingData[k].index
                                 \notin Range(OrEmpty(clusters.cluster1))
                           /\ embeddingData[k].index
                                 \notin Range(OrEmpty(clusters.cluster2))
                           /\ a <= embeddingData[k].x
                           /\ embeddingData[k].x <= b}}
            IN (a <= b /\ BrushEnd(Some(ScaleRect(embeddingData, a, b)))) =>
                 IF S = {}
                 THEN UNCHANGED clusters
                 ELSE IF ~IsSet(clusters.cluster1) \/ IsSet(clusters.cluster2)
                      THEN Range(Val(clusters'.cluster1)) = S
                      ELSE Range(Val(clusters'.cluster2)) = S]_vars

(* Points at x = 0, 2, 8, 10: cluster1 holds the points at 2 and 8, which  *)
(* only a gesture from 2 to 8 selects                                      *)
C18_Witness ==
    /\ [k \in 1..Len(embeddingData) |-> embeddingData[k].x] = <<0, 2, 8, 10>>
    /\ clusters = [cluster1 |-> Some(<<1, 2>>), cluster2 |-> Null]

-----------------------------------------------------------------------------
(* The summary of a saved analysis                                         *)

(* the number of features of items that name variable v *)
Occurrences(items, v) == Cardinality({k \in 1..Len(items) : items[k].variable = v})

(* the position of the first feature of items that names variable v *)
FirstOccurrence(items, v) ==
    CHOOSE k \in 1..Len(items) :
       /\ items[k].variable = v
       /\ \A j \in 1..(k - 1) : items[j].variable # v

(* u ranks before v: more occurrences, or as many and seen first *)
RanksBefore(items, u, v) ==
    \/ Occurrences(items, u) > Occurrences(items, v)
    \/ /\ Occurrences(items, u) = Occurrences(items, v)
       /\ FirstOccurrence(items, u) < FirstOccurrence(items, v)

PositionOf(idx) ==
    CHOOSE k \in 1..Len(embeddingData) : embeddingData[k].index = idx

(* C20: the indices a gesture assigns are exactly those of the points that *)
(* are in neither cluster and whose screen position (px, py) satisfies     *)
(* x0 <= px <= x1 and y0 <= py <= y1, in the order of the collection; an   *)
(* assigned point inside the rectangle is not among them.                  *)
C20_CandidateSet ==
    [][\A r \in Rects :
         LET C == {k \in 1..Len(embeddingData) :
                     /\ embeddingData[k].index
                           \notin Range(OrEmpty(clusters.cluster1))
                     /\ embeddingData[k].index
                           \notin Range(OrEmpty(clusters.cluster2))
                     /\ Geq(xScale(embeddingData, embeddingData[k].x), r.x0)
                     /\ Leq(xScale(embeddingData, embeddingData[k].x), r.x1)
                     /\ Geq(yScale(embeddingData, embeddingData[k].y), r.y0)
                     /\ Leq(yScale(embeddingData, embeddingData[k].y), r.y1)}
         IN BrushEnd(Some(r)) =>
              IF C = {}
              THEN UNCHANGED clusters
              ELSE LET new == IF ~IsSet(clusters.cluster1) \/ IsSet(clusters.cluster2)
                              THEN Val(clusters'.cluster1)
                              ELSE Val(clusters'.cluster2)
                   IN /\ Len(new) = Cardinality(C)
                      /\ Range(new) = {embeddingData[k].index : k \in C}
                      /\ \A a, b \in 1..Len(new) :
                            a < b => PositionOf(new[a]) < PositionOf(new[b])]_vars

(* Three points at x = 0, 10, 5: the left half took points 0 and 2 (point  *)
(* 2 lies on its right edge); the right half, which holds points 1 and 2,  *)
(* then gave cluster2 point 1 only.                                        *)
C20_Witness ==
    /\ Len(embeddingData) = 3
    /\ clusters = [cluster1 |-> Some(<<0, 2>>), cluster2 |-> Some(<<1>>)]

-----------------------------------------------------------------------------
(* Stages and payloads of an invocation                                    *)

(* the place of a stage in the pipeline *)
StageRank(stage) ==
    CASE stage = "computeEmbedding" -> 1
      [] stage = "analyzeClusters" -> 2
      [] stage = "interpretClusters" -> 3

(* C21: within an invocation the stages are strictly ordered. An           *)
(* invocation in flight awaits exactly one request, the last one it        *)
(* issued; it issues a further request only in the step in which the       *)
(* awaited one is answered successfully and the answer is stored:          *)
(* analyzeClusters of a manual invocation with the embedding of its own    *)
(* computeEmbedding in the store, interpretClusters with the top features  *)
(* and contribution matrix of its own analyzeClusters in the store.        *)
C21_StagesOrdered ==
    /\ [](\A i \in 1..Len(inv) :
            InFlight(i) =>
               /\ IsSet(inv[i].request)
               /\ Len(inv[i].stages) >= 1
               /\ inv[i].stages[Len(inv[i].stages)] = Val(inv[i].request).stage
               /\ \A a, b \in 1..Len(inv[i].stages) :
                     a < b => StageRank(inv[i].stages[a])
                                 < StageRank(inv[i].stages[b]))
    /\ [][\A i \in 1..Len(inv') :
            IF i > Len(inv)
            THEN Len(inv'[i].stages) = 1
            ELSE \/ inv'[i] = inv[i]
                 \/ /\ InFlight(i)
                    /\ inv'[i].pc \in {"done", "failed"}
                    /\ inv'[i].request = Null
                 \/ /\ inv[i].kind = "manual"
                    /\ inv[i].pc = "computeEmbedding"
                    /\ inv'[i].pc = "analyzeClusters"
                    /\ inv'[i].stages = Append(inv[i].stages, "analyzeClusters")
                    /\ scaledData' = Some([src |-> i, part |-> "scaled_data"])
                    /\ Ms' = Some([src |-> i, part |-> "Ms"])
                    /\ Mv' = Some([src |-> i, part |-> "Mv"])
                    /\ Len(embeddingData') > 0
                 \/ /\ inv[i].pc = "analyzeClusters"
                    /\ inv'[i].pc = "interpretClusters"
                    /\ inv'[i].stages = Append(inv[i].stages, "interpretClusters")
                    /\ IsSet(topFeatures') /\ Val(topFeatures').src = i
                    /\ IsSet(contributionMatrix')
                    /\ Val(contributionMatrix').src = i]_vars

(* a manual invocation has gone through its three stages while an          *)
(* automatic invocation is in flight as well                               *)
C21_Witness ==
    \E i, j \in 1..Len(inv) :
       /\ inv[i].kind = "manual"
       /\ inv[i].stages =
            <<"computeEmbedding", "analyzeClusters", "interpretClusters">>
       /\ inv[j].kind = "auto"
       /\ InFlight(j)

(* C22: the interpretClusters request of an invocation carries the top     *)
(* features answered to that invocation's own analyzeClusters request and  *)
(* the sizes of the two index sets that request carried, whatever the      *)
(* clusters and the top features of the store have become meanwhile; the   *)
(* analyzeClusters request of a manual invocation carries the scaled data, *)
(* Ms and Mv answered to its own computeEmbedding request.                 *)
C22_RequestPayloads ==
    [][\A i \in 1..Len(inv) :
         /\ (inv[i].pc = "analyzeClusters" /\ inv'[i].pc = "interpretClusters") =>
               LET sent == Val(inv[i].request)
                   next == Val(inv'[i].request)
               IN /\ next.stage = "interpretClusters"
                  /\ next.top_features.src = i
                  /\ next.top_features = Val(topFeatures')
                  /\ next.cluster1_size = Len(sent.cluster1_indices)
                  /\ next.cluster2_size = Len(sent.cluster2_indices)
         /\ (inv[i].pc = "computeEmbedding" /\ inv'[i].pc = "analyzeClusters") =>
               LET next == Val(inv'[i].request)
               IN /\ next.stage = "analyzeClusters"
                  /\ next.scaled_data = [src |-> i, part |-> "scaled_data"]
                  /\ next.Ms = [src |-> i, part |-> "Ms"]
                  /\ next.Mv = [src |-> i, part |-> "Mv"]
                  /\ next.cluster1_indices = Val(inv[i].cluster1)
                  /\ next.cluster2_indices = Val(inv[i].cluster2)]_vars

(* Invocation j awaits its interpretation, requested for its own top       *)
(* features and cluster sizes, although a later invocation was answered    *)
(* while j's analysis was in flight and the clusters of the store no       *)
(* longer have the sizes j sent.                                           *)
C22_Witness ==
    \E i, j \in 1..Len(inv) :
       /\ inv[j].pc = "interpretClusters"
       /\ inv[i].pc = "interpretClusters"
       /\ inv[j].seq < inv[i].seq
       /\ IsSet(topFeatures) /\ Val(topFeatures).src = j
       /\ Val(inv[j].request).top_features.src = j
       /\ BothFilled(clusters)
       /\ Val(inv[j].request).cluster1_size # Len(Val(clusters.cluster1))

-----------------------------------------------------------------------------
(* Consistency of History and of the comparison selection                  *)

(* C23: every id of the comparison selection is the id of an entry of      *)
(* History.                                                                *)
C23_SelectionWithinHistory ==
    Range(selectedHistoryIds) \subseteq Range(HistoryIds(analysisHistory))

(* C24: every saved analysis is self-consistent: its top features answer  *)
(* an analyzeClusters request for its own two index sets, and its          *)
(* interpretation answers an interpretClusters request for its own top     *)
(* features.                                                               *)
C24_SavedAnalysisConsistent ==
    \A e \in 1..Len(analysisHistory) :
       /\ analysisHistory[e].top_features.about =
             [cluster1_indices |-> analysisHistory[e].cluster1_indices,
              cluster2_indices |-> analysisHistory[e].cluster2_indices]
       /\ analysisHistory[e].interpretation.about =
             analysisHistory[e].top_features.src

-----------------------------------------------------------------------------
(* Resets, executes and responses that cross them                          *)

(* both clusters, the top features, the contribution matrix and the        *)
(* interpretation are unset: the values resetClusters writes, held until   *)
(* the next gesture or response                                            *)
JustReset ==
    /\ clusters = [cluster1 |-> Null, cluster2 |-> Null]
    /\ topFeatures = Null
    /\ contributionMatrix = Null
    /\ interpretation = Null

(* C25: after a reset the results stay unset until an invocation started   *)
(* after it succeeds. An invocation that is in flight in a state the reset *)
(* has left (no cluster, no result) was started before the reset, or by an *)
(* Execute command given without clusters; the next step writes neither    *)
(* the top features nor the interpretation from its response.              *)
C25_ResetNotRepopulated ==
    [][\A i \in 1..Len(inv) :
         (InFlight(i) /\ JustReset) =>
            /\ ~(IsSet(topFeatures') /\ Val(topFeatures').src = i)
            /\ ~(IsSet(interpretation') /\ Val(interpretation').src = i)]_vars

(* C26: when the embedding of a manual invocation started with both       *)
(* clusters set arrives while the clusters of the store are still those of *)
(* the command, exactly one analyzeClusters request is issued, by that     *)
(* invocation, and no automatic invocation starts.                         *)
C26_ExecuteAnalyzesOnce ==
    [][\A i \in 1..Len(inv), resp \in EmbeddingResponses :
         (/\ EmbeddingResolved(i, resp)
          /\ BothFilled(inv[i])
          /\ clusters = [cluster1 |-> inv[i].cluster1,
                         cluster2 |-> inv[i].cluster2]) =>
            /\ nAnalyze' = nAnalyze + 1
            /\ Len(inv') = Len(inv)
            /\ inv'[i].pc = "analyzeClusters"]_vars

(* C27: whenever no invocation is in flight and both the top features and *)
(* the interpretation are held, the interpretation answers an              *)
(* interpretClusters request made for the top features held.               *)
C27_InterpretationMatchesFeatures ==
    (NoInFlight /\ IsSet(topFeatures) /\ IsSet(interpretation)) =>
       Val(interpretation).about = Val(topFeatures).src

-----------------------------------------------------------------------------
(* Clusters and the points they index                                      *)

(* the indices of the points of the current collection *)
PointIndices == {embeddingData[k].index : k \in 1..Len(embeddingData)}

(* C28: every index held in cluster1 or cluster2 is the index of a point   *)
(* of the current collection.                                              *)
C28_ClusterIndicesValid ==
    /\ Range(OrEmpty(clusters.cluster1)) \subseteq PointIndices
    /\ Range(OrEmpty(clusters.cluster2)) \subseteq PointIndices

(* C29: whenever cluster1 or cluster2 is set, the scaled data, Ms and Mv   *)
(* are held and every cluster that is set is a non-empty index sequence;   *)
(* so whenever both clusters are set the condition of the auto-analyze     *)
(* effect holds: run on that state it starts an invocation.                *)
C29_ClustersNeedStage1 ==
    /\ (IsSet(clusters.cluster1) \/ IsSet(clusters.cluster2)) =>
          IsSet(scaledData) /\ IsSet(Ms) /\ IsSet(Mv)
    /\ IsSet(clusters.cluster1) => Len(Val(clusters.cluster1)) > 0
    /\ IsSet(clusters.cluster2) => Len(Val(clusters.cluster2)) > 0
    /\ BothFilled(clusters) =>
          Len(analyzeIfReady(Orchestration, clusters, scaledData, Ms, Mv).inv)
             = Len(inv) + 1

(* both clusters are set on the second embedding received, and the         *)
(* automatic invocation of that selection is in flight                     *)
C29_Witness ==
    /\ BothFilled(clusters)
    /\ IsSet(scaledData) /\ Val(scaledData).src > 1
    /\ \E i \in 1..Len(inv) :
          /\ inv[i].kind = "auto"
          /\ InFlight(i)
          /\ inv[i].scaledData = scaledData
          /\ inv[i].cluster1 = clusters.cluster1
          /\ inv[i].cluster2 = clusters.cluster2

-----------------------------------------------------------------------------
(* The algebra of the comparison selection                                 *)

(* C30: toggling an id that is selected removes exactly that id and keeps  *)
(* the other selected id, if any; and on a selection of fewer than 2 ids,  *)
(* toggling twice an id that is not selected gives the selection back.     *)
C30_ToggleAlgebra ==
    /\ [][\A id \in 1..MaxSaves :
            (ToggleClick(id) /\ id \in Range(selectedHistoryIds)) =>
               /\ Len(selectedHistoryIds') = Len(selectedHistoryIds) - 1
               /\ Range(selectedHistoryIds') = Range(selectedHistoryIds) \ {id}
               /\ UNCHANGED analysisHistory]_vars
    /\ [](\A id \in 1..MaxSaves :
            (id \notin Range(selectedHistoryIds) /\ Len(selectedHistoryIds) < 2) =>
               toggleHistorySelection(
                   toggleHistorySelection(selectedHistoryIds, id), id)
                 = selectedHistoryIds)

(* the two saved analyses were compared, then the first was toggled off:   *)
(* the second is still selected                                            *)
C30_Witness ==
    /\ Len(analysisHistory) = 2
    /\ IsSet(comparisonResult)
    /\ selectedHistoryIds = <<2>>

====
